---- MODULE Spec2Model ----
(***************************************************************************)
(* A model of the Mini Assistant plugin: settings migration, the           *)
(* capability map (buildAssistants), the settings-tab change handlers,     *)
(* the host commands, and the OpenAI-compatible / Anthropic text calls.    *)
(*                                                                         *)
(* Strings are sequences of atoms.  An atom is one character (" ", "-",    *)
(* "_", "/", a digit, ...) or a word whose inside no operation of the      *)
(* program looks at ("api.openai.com", "tokens", ...).  trim, parseInt,    *)
(* the regular expressions and concatenation work atom by atom.            *)
(***************************************************************************)
EXTENDS Integers, Sequences, FiniteSets, TLC

VARIABLES
    data,        \* the persisted settings blob (loadData / saveData)
    settings,    \* AiAssistantPlugin.settings
    loaded,      \* TRUE once onload has run
    assistants,  \* AiAssistantPlugin.assistants: capability -> assistant | absent
    factoryLog,  \* slots createAssistant was invoked for during the last buildAssistants
    pending,     \* change handlers suspended at `await this.plugin.saveSettings()`
    uiNotice,    \* the Notice shown by the change handler that has just run, if any
    lastCmd,     \* what the host command that has just run did
    modal,       \* the open dialog, holding the assistant the command captured
    call,        \* the assistant call in flight
    edits,       \* how many settings-tab change events have been delivered
    callback     \* what the prompt callback that has just resumed did

vars == <<data, settings, loaded, assistants, factoryLog, pending, uiNotice,
          lastCmd, modal, call, edits, callback>>

----------------------------------------------------------------------------
(* Strings *)

WS == " "

\* the characters trim removes
WhiteSpace == {WS, "\n"}

Dig == <<"0", "1", "2", "3", "4", "5", "6", "7", "8", "9">>

IsDigit(c) == \E i \in 1..10 : Dig[i] = c

DigitVal(c) == (CHOOSE i \in 1..10 : Dig[i] = c) - 1

RECURSIVE TrimLeft(_)
TrimLeft(s) == IF s # <<>> /\ Head(s) \in WhiteSpace THEN TrimLeft(Tail(s)) ELSE s

RECURSIVE TrimRight(_)
TrimRight(s) ==
    IF s # <<>> /\ s[Len(s)] \in WhiteSpace THEN TrimRight(SubSeq(s, 1, Len(s) - 1)) ELSE s

\* String.prototype.trim
Trim(s) == TrimRight(TrimLeft(s))

RECURSIVE Decimal(_)
\* the decimal digits of a non-negative integer
Decimal(n) == IF n < 10 THEN <<Dig[n + 1]>> ELSE Decimal(n \div 10) \o <<Dig[(n % 10) + 1]>>

\* a run of 310 digits 9 as one atom: its value is beyond the largest
\* finite double
LongDigits == "9(x310)"

RECURSIVE LeadingDigits(_)
\* how many atoms at the start of s are digits
LeadingDigits(s) ==
    IF s # <<>> /\ (IsDigit(Head(s)) \/ Head(s) = LongDigits)
    THEN 1 + LeadingDigits(Tail(s)) ELSE 0

RECURSIVE DigitsValue(_)
DigitsValue(s) ==
    IF s = <<>> THEN 0 ELSE 10 * DigitsValue(SubSeq(s, 1, Len(s) - 1)) + DigitVal(s[Len(s)])

----------------------------------------------------------------------------
(* JavaScript values: t is the type tag, s the string content, n the       *)
(* integer part of a number, x what else a number is ("NaN", "Infinity",   *)
(* or ".5" for n + 0.5).                                                   *)

JUndef == [t |-> "undefined", s |-> <<>>, n |-> 0, x |-> ""]
JNull == [t |-> "null", s |-> <<>>, n |-> 0, x |-> ""]
JObj == [t |-> "object", s |-> <<>>, n |-> 0, x |-> ""]
JStr(s) == [t |-> "string", s |-> s, n |-> 0, x |-> ""]
JNum(n) == [t |-> "number", s |-> <<>>, n |-> n, x |-> ""]
JNaN == [t |-> "number", s |-> <<>>, n |-> 0, x |-> "NaN"]
JInf == [t |-> "number", s |-> <<>>, n |-> 0, x |-> "Infinity"]
JNegInf == [t |-> "number", s |-> <<>>, n |-> -1, x |-> "Infinity"]
JHalf(n) == [t |-> "number", s |-> <<>>, n |-> n, x |-> ".5"]
JBool(b) == [t |-> "boolean", s |-> <<>>, n |-> IF b THEN 1 ELSE 0, x |-> ""]

\* typeof
Typeof(v) == IF v.t = "null" THEN "object" ELSE v.t

\* v ?? d
Coalesce(v, d) == IF v.t \in {"undefined", "null"} THEN d ELSE v

\* ToBoolean
Truthy(v) ==
    CASE v.t = "string" -> v.s # <<>>
      [] v.t = "number" -> ~(v.x = "NaN" \/ (v.x = "" /\ v.n = 0))
      [] v.t = "boolean" -> v.n = 1
      [] v.t = "object" -> TRUE
      [] OTHER -> FALSE

\* String(v) and v.toString()
ToStr(v) ==
    CASE v.t = "string" -> v.s
      [] v.t = "number" /\ v.x = "NaN" -> <<"NaN">>
      [] v.t = "number" /\ v.x = "Infinity" ->
            IF v.n < 0 THEN <<"-", "Infinity">> ELSE <<"Infinity">>
      [] v.t = "number" /\ v.x = ".5" ->
            (IF v.n < 0 THEN <<"-">> \o Decimal(-v.n) ELSE Decimal(v.n)) \o <<".", "5">>
      [] v.t = "number" -> IF v.n < 0 THEN <<"-">> \o Decimal(-v.n) ELSE Decimal(v.n)
      [] v.t = "boolean" -> IF v.n = 1 THEN <<"true">> ELSE <<"false">>
      [] v.t = "object" -> <<"[object Object]">>
      [] v.t = "null" -> <<"null">>
      [] OTHER -> <<"undefined">>

\* Number.parseInt(s, 10): leading white space, an optional sign, then the
\* longest run of digits; NaN when there is no digit.  The value of the run
\* is rounded to a double: a run that holds LongDigits gives an infinity.
ParseInt(s) ==
    LET t == TrimLeft(s)
        signed == t # <<>> /\ Head(t) \in {"-", "+"}
        u == IF signed THEN Tail(t) ELSE t
        k == LeadingDigits(u)
        overflow == \E i \in 1..k : u[i] = LongDigits
        mag == DigitsValue(SubSeq(u, 1, k))
    IN  IF k = 0 THEN JNaN
        ELSE IF overflow THEN (IF signed /\ Head(t) = "-" THEN JNegInf ELSE JInf)
        ELSE IF signed /\ Head(t) = "-" THEN JNum(-mag) ELSE JNum(mag)

IsNaN(v) == v.t = "number" /\ v.x = "NaN"

\* v > 0, for a number v
Positive(v) == v.t = "number" /\ v.x # "NaN" /\ (v.n > 0 \/ (v.n = 0 /\ v.x # ""))

\* Number.isFinite
IsFinite(v) == v.t = "number" /\ v.x \in {"", ".5"}

----------------------------------------------------------------------------
(* settings.ts *)

DEFAULT_TEXT_MODEL == <<"gpt-", "4", "o", "-mini">>

DEFAULT_SPEECH_MODEL == <<"whisper-1">>

DEFAULT_API_BASE_URL == <<"https://", "api.openai.com", "/v1">>

DEFAULT_MAX_TOKENS == 0

----------------------------------------------------------------------------
(* The settings object and the persisted blob *)

SettingsFields ==
    {"apiKey1", "apiBaseUrl1", "apiKey2", "apiBaseUrl2", "textProvider",
     "speechProvider", "modelName", "speechModelName", "maxTokens",
     "replaceSelection", "language"}

\* fields of older versions, deleted by migrateSettings
ObsoleteFields ==
    {"openAIapiKey", "anthropicApiKey", "apiKey", "apiBaseUrl", "apiKey3",
     "apiBaseUrl3", "imageProvider", "imageModelName", "imgFolder", "mySetting"}

AllFields == SettingsFields \cup ObsoleteFields

DEFAULT_SETTINGS ==
    [apiKey1 |-> JStr(<<>>),
     apiBaseUrl1 |-> JStr(DEFAULT_API_BASE_URL),
     apiKey2 |-> JStr(<<>>),
     apiBaseUrl2 |-> JStr(<<>>),
     textProvider |-> JNum(1),
     speechProvider |-> JNum(1),
     modelName |-> JStr(DEFAULT_TEXT_MODEL),
     speechModelName |-> JStr(DEFAULT_SPEECH_MODEL),
     maxTokens |-> JNum(DEFAULT_MAX_TOKENS),
     replaceSelection |-> JBool(TRUE),
     language |-> JStr(<<>>)]

\* an object none of whose properties is present (JUndef: no such property)
EmptyObject == [f \in AllFields |-> JUndef]

\* what loadData resolves to when nothing was ever saved
NoData == [truthy |-> FALSE, obj |-> EmptyObject]

Blob(obj) == [truthy |-> TRUE, obj |-> obj]

\* what saveData writes and loadData reads back: JSON has no NaN and no
\* infinity, JSON.stringify writes them as null
saveData(obj) ==
    Blob([f \in DOMAIN obj |->
            IF obj[f].t = "number" /\ obj[f].x \in {"NaN", "Infinity"} THEN JNull
            ELSE obj[f]])

\* settings before loadSettings has run
Unloaded == EmptyObject

----------------------------------------------------------------------------
(* AiAssistantPlugin.normalizeProviderSlot *)

\* normalizeProviderSlot that compares the value itself, without parseInt
normalizeProviderSlot_NoParse(value) ==
    IF value \in {JNum(2), JStr(<<"2">>)} THEN 2 ELSE 1

normalizeProviderSlot(value) ==
    LET numeric == ParseInt(ToStr(Coalesce(value, JStr(<<>>))))
    IN  IF numeric = JNum(2) THEN 2 ELSE 1

----------------------------------------------------------------------------
(* AiAssistantPlugin.migrateSettings *)

\* the scan taking the last non-blank legacy key instead of the first
legacyKey_Last(d) ==
    LET cands == <<d.apiKey, d.openAIapiKey, d.anthropicApiKey>>
        ok(v) == Typeof(v) = "string" /\ Trim(v.s) # <<>>
        hits == {i \in 1..3 : ok(cands[i])}
    IN  IF hits = {} THEN JUndef
        ELSE cands[CHOOSE i \in hits : \A j \in hits : i >= j]

\* [data.apiKey, data.openAIapiKey, data.anthropicApiKey].find(non-blank string)
legacyKey(d) ==
    LET cands == <<d.apiKey, d.openAIapiKey, d.anthropicApiKey>>
        ok(v) == Typeof(v) = "string" /\ Trim(v.s) # <<>>
        hits == {i \in 1..3 : ok(cands[i])}
    IN  IF hits = {} THEN JUndef
        ELSE cands[CHOOSE i \in hits : \A j \in hits : i <= j]

legacyBase(d) ==
    IF Typeof(d.apiBaseUrl) = "string" /\ Trim(d.apiBaseUrl.s) # <<>>
    THEN Trim(d.apiBaseUrl.s)
    ELSE DEFAULT_API_BASE_URL

\* (v ?? "").toString().trim()
TrimmedString(v) == JStr(Trim(ToStr(Coalesce(v, JStr(<<>>)))))

migrateKeys(m, d) ==
    LET lk == legacyKey(d)
        k1 == IF Typeof(m.apiKey1) # "string"
              THEN (IF Truthy(lk) THEN JStr(Trim(lk.s)) ELSE JStr(<<>>))
              ELSE m.apiKey1
    IN  [m EXCEPT !.apiKey1 = TrimmedString(k1),
                  !.apiKey2 = TrimmedString(m.apiKey2)]

migrateBaseUrls_NoDefault(m, d) ==
    LET b1 == IF Typeof(m.apiBaseUrl1) # "string" THEN JStr(legacyBase(d)) ELSE m.apiBaseUrl1
    IN  [m EXCEPT !.apiBaseUrl1 = TrimmedString(b1),
                  !.apiBaseUrl2 = TrimmedString(m.apiBaseUrl2)]

migrateBaseUrls(m, d) ==
    LET b1 == IF Typeof(m.apiBaseUrl1) # "string" THEN JStr(legacyBase(d)) ELSE m.apiBaseUrl1
        t1 == TrimmedString(b1)
    IN  [m EXCEPT !.apiBaseUrl1 = IF ~Truthy(t1) THEN JStr(DEFAULT_API_BASE_URL) ELSE t1,
                  !.apiBaseUrl2 = TrimmedString(m.apiBaseUrl2)]

migrateProviders(m) ==
    [m EXCEPT !.textProvider = JNum(normalizeProviderSlot(m.textProvider)),
              !.speechProvider = JNum(normalizeProviderSlot(m.speechProvider))]

migrateSpeechModel(m) ==
    IF Typeof(m.speechModelName) # "string" \/ ~Truthy(m.speechModelName)
    THEN [m EXCEPT !.speechModelName = JStr(DEFAULT_SPEECH_MODEL)]
    ELSE m

migrateMaxTokens(m, d) ==
    LET parsedTokens ==
            ParseInt(ToStr(Coalesce(d.maxTokens, Coalesce(m.maxTokens, JStr(<<>>)))))
    IN  IF IsNaN(parsedTokens) \/ parsedTokens.n < 0
        THEN [m EXCEPT !.maxTokens = JNum(DEFAULT_MAX_TOKENS)]
        ELSE [m EXCEPT !.maxTokens = parsedTokens]

\* the ten `delete (migrated as any).<field>` statements
deleteObsolete(m) == [f \in AllFields |-> IF f \in ObsoleteFields THEN JUndef ELSE m[f]]

\* the patch: a property that is JUndef is not in the patch
migrateSettings(blob) ==
    IF ~blob.truthy THEN EmptyObject
    ELSE LET d == blob.obj
         IN  deleteObsolete(
                migrateMaxTokens(
                    migrateSpeechModel(
                        migrateProviders(
                            migrateBaseUrls(migrateKeys(d, d), d))), d))

\* Object.assign({}, DEFAULT_SETTINGS, migrated)
loadSettings(blob) ==
    LET migrated == migrateSettings(blob)
    IN  [f \in AllFields |->
            IF migrated[f] # JUndef THEN migrated[f]
            ELSE IF f \in SettingsFields THEN DEFAULT_SETTINGS[f]
            ELSE JUndef]

----------------------------------------------------------------------------
(* Lower-casing of the atoms that the /i regular expressions can meet *)

Lower(a) ==
    CASE a \in {"MAX", "Max"} -> "max"
      [] a \in {"TOKENS", "Tokens"} -> "tokens"
      [] a \in {"COMPLETION", "Completion"} -> "completion"
      [] a \in {"ANTHROPIC.COM", "Anthropic.com"} -> "anthropic.com"
      [] OTHER -> a

----------------------------------------------------------------------------
(* openai_api.ts: the two assistant classes *)

\* normalizeBaseUrl: trim, default when blank, strip one trailing slash
normalizeBaseUrl(baseUrl) ==
    LET trimmed == Trim(baseUrl)
        normalized == IF trimmed = <<>> THEN DEFAULT_API_BASE_URL ELSE trimmed
    IN  IF normalized[Len(normalized)] = "/"
        THEN SubSeq(normalized, 1, Len(normalized) - 1)
        ELSE normalized

\* no assistant (undefined)
Absent ==
    [id |-> 0, variant |-> "absent", apiKey |-> <<>>, baseUrl |-> <<>>,
     modelName |-> <<>>, maxTokens |-> JUndef, speechModelName |-> <<>>]

\* v || d, for a string setting
OrDefault(v, d) == IF Truthy(v) THEN v.s ELSE d

\* new OpenAIAssistant(apiKey, baseUrl, modelName, maxTokens, speechModelName)
OpenAIAssistant(id, apiKey, baseUrl, modelName, maxTokens, speechModelName) ==
    [id |-> id, variant |-> "openai", apiKey |-> apiKey,
     baseUrl |-> normalizeBaseUrl(baseUrl),
     modelName |-> OrDefault(modelName, DEFAULT_TEXT_MODEL),
     maxTokens |-> maxTokens,
     speechModelName |-> OrDefault(speechModelName, DEFAULT_SPEECH_MODEL)]

\* new AnthropicAssistant(apiKey, baseUrl, modelName, maxTokens)
AnthropicAssistant(id, apiKey, baseUrl, modelName, maxTokens) ==
    [id |-> id, variant |-> "anthropic", apiKey |-> apiKey,
     baseUrl |-> normalizeBaseUrl(baseUrl),
     modelName |-> OrDefault(modelName, <<"claude-3-5-sonnet-latest">>),
     maxTokens |-> maxTokens,
     speechModelName |-> <<>>]

\* an assistant without its object identity
Values(a) == [a EXCEPT !.id = 0]

----------------------------------------------------------------------------
(* AiAssistantPlugin: the capability map *)

Capabilities == {"text", "speech"}

\* the test without the i flag
IsAnthropicUrl_CaseSensitive(s) == \E i \in 1..Len(s) : s[i] = "anthropic.com"

\* /anthropic\.com/i.test(s)
IsAnthropicUrl(s) == \E i \in 1..Len(s) : Lower(s[i]) = "anthropic.com"

createAssistant(s, id, apiKey, baseUrl) ==
    LET effectiveBase == IF baseUrl = <<>> THEN DEFAULT_API_BASE_URL ELSE baseUrl
    IN  IF IsAnthropicUrl(effectiveBase)
        THEN AnthropicAssistant(id, apiKey, effectiveBase, s.modelName, s.maxTokens)
        ELSE OpenAIAssistant(id, apiKey, effectiveBase, s.modelName, s.maxTokens,
                             s.speechModelName)

getProviderConfig(s, slot) ==
    LET keyField == IF slot = 1 THEN "apiKey1" ELSE "apiKey2"
        urlField == IF slot = 1 THEN "apiBaseUrl1" ELSE "apiBaseUrl2"
        apiKey == Trim(OrDefault(s[keyField], <<>>))
        trimmedUrl == Trim(OrDefault(s[urlField], <<>>))
        baseUrl == IF trimmedUrl = <<>> /\ slot = 1 THEN DEFAULT_API_BASE_URL ELSE trimmedUrl
    IN  [apiKey |-> apiKey, baseUrl |-> baseUrl]

\* the smallest object identity not in use
FreshId(used) == CHOOSE i \in 1..(Cardinality(used) + 1) : i \notin used

\* resolveSlot without the slotCache lookup
resolveSlot_NoCache(s, st, slot) ==
    LET config == getProviderConfig(s, slot)
        id == FreshId(st.used)
    IN  IF config.apiKey = <<>>
        THEN [st EXCEPT !.cached = @ \cup {slot}, !.cache[slot] = Absent,
                        !.result = Absent]
        ELSE LET assistant == createAssistant(s, id, config.apiKey, config.baseUrl)
             IN  [cached |-> st.cached \cup {slot},
                  cache |-> [st.cache EXCEPT ![slot] = assistant],
                  used |-> st.used \cup {id},
                  log |-> Append(st.log, slot), result |-> assistant]

\* resolveSlot that constructs an assistant whatever the key is
resolveSlot_NoKeyCheck(s, st, slot) ==
    LET config == getProviderConfig(s, slot)
        id == FreshId(st.used)
        assistant == createAssistant(s, id, config.apiKey, config.baseUrl)
    IN  IF slot \in st.cached
        THEN [st EXCEPT !.result = st.cache[slot]]
        ELSE [cached |-> st.cached \cup {slot},
              cache |-> [st.cache EXCEPT ![slot] = assistant],
              used |-> st.used \cup {id},
              log |-> Append(st.log, slot), result |-> assistant]

\* the closure resolveSlot of buildAssistants.  st.cached and st.cache are
\* slotCache, st.used the identities of the live objects, st.log the slots
\* createAssistant has been invoked for.
resolveSlot(s, st, slot) ==
    IF slot \in st.cached
    THEN [st EXCEPT !.result = st.cache[slot]]
    ELSE LET config == getProviderConfig(s, slot)
             id == FreshId(st.used)
         IN  IF config.apiKey = <<>>
             THEN [st EXCEPT !.cached = @ \cup {slot}, !.cache[slot] = Absent,
                             !.result = Absent]
             ELSE LET assistant == createAssistant(s, id, config.apiKey, config.baseUrl)
                  IN  [cached |-> st.cached \cup {slot},
                       cache |-> [st.cache EXCEPT ![slot] = assistant],
                       used |-> st.used \cup {id},
                       log |-> Append(st.log, slot), result |-> assistant]

\* buildAssistants: a fresh slotCache, text resolved first, then speech
buildAssistants(s, used) ==
    LET st0 == [cached |-> {}, cache |-> [slot \in {1, 2} |-> Absent], used |-> used,
                log |-> <<>>, result |-> Absent]
        textSlot == normalizeProviderSlot(s.textProvider)
        speechSlot == normalizeProviderSlot(s.speechProvider)
        st1 == resolveSlot(s, st0, textSlot)
        st2 == resolveSlot(s, st1, speechSlot)
    IN  [map |-> [text |-> st1.result, speech |-> st2.result], log |-> st2.log]

getAssistant(capability) == assistants[capability]

----------------------------------------------------------------------------
(* Bounds and inputs *)

\* change events delivered by the settings tab in one run
MaxEdits == 2

\* what the user types into an API-key field
KeyInputs == {<<" ">>, <<" ", "sk-1", " ">>}

\* what the user types into a base-URL field
UrlInputs == {<<>>, <<"https://", "api.", "anthropic.com", "/v1", "/">>}

\* the option keys of the provider dropdown
ProviderOptions == {<<"1">>, <<"2">>}

ModelInputs == {<<>>, <<" ", "o", "1", "-mini">>}

MaxTokensInputs ==
    {<<" ">>, <<"5", "0", "0">>, <<"abc">>, <<"-", "1">>, <<" ", "1", "2", "px">>}

SpeechModelInputs == {<<" ">>, <<"gpt-4o-transcribe">>}

LanguageInputs == {<<"en">>}

----------------------------------------------------------------------------
(* AiAssistantSettingTab: the onChange handlers.  Each yields the settings  *)
(* it leaves, whether it reaches `await saveSettings()`, whether            *)
(* buildAssistants follows the await, and the Notice it shows.              *)

Changed(s, build) == [settings |-> s, save |-> TRUE, build |-> build, notice |-> ""]

apiKeyOnChange(s, slot, value) ==
    Changed([s EXCEPT ![IF slot = 1 THEN "apiKey1" ELSE "apiKey2"] = JStr(Trim(value))],
            TRUE)

baseUrlOnChange(s, slot, value) ==
    Changed([s EXCEPT ![IF slot = 1 THEN "apiBaseUrl1" ELSE "apiBaseUrl2"] =
                            JStr(Trim(value))],
            TRUE)

providerOnChange(s, field, value) == Changed([s EXCEPT ![field] = ParseInt(value)], TRUE)

modelNameOnChange(s, value) == Changed([s EXCEPT !.modelName = JStr(Trim(value))], TRUE)

speechModelOnChange(s, value) ==
    Changed([s EXCEPT !.speechModelName = JStr(Trim(value))], TRUE)

replaceSelectionOnChange(s, value) ==
    Changed([s EXCEPT !.replaceSelection = JBool(value)], FALSE)

languageOnChange(s, value) == Changed([s EXCEPT !.language = JStr(value)], FALSE)

MaxTokensNotice == "Max tokens must be a positive number or blank."

\* the Max Tokens handler without Number.isNaN(intValue) in its test
maxTokensOnChange_NoNaNCheck(s, value) ==
    LET trimmed == Trim(value)
        intValue == ParseInt(trimmed)
    IN  IF trimmed = <<>> THEN Changed([s EXCEPT !.maxTokens = JNum(0)], TRUE)
        ELSE IF intValue.n < 0
        THEN [settings |-> s, save |-> FALSE, build |-> FALSE, notice |-> MaxTokensNotice]
        ELSE Changed([s EXCEPT !.maxTokens = intValue], TRUE)

\* the Max Tokens handler without buildAssistants in its blank branch
maxTokensOnChange_BlankNoBuild(s, value) ==
    LET trimmed == Trim(value)
        intValue == ParseInt(trimmed)
    IN  IF trimmed = <<>> THEN Changed([s EXCEPT !.maxTokens = JNum(0)], FALSE)
        ELSE IF IsNaN(intValue) \/ intValue.n < 0
        THEN [settings |-> s, save |-> FALSE, build |-> FALSE, notice |-> MaxTokensNotice]
        ELSE Changed([s EXCEPT !.maxTokens = intValue], TRUE)

\* the Max Tokens handler that tests for NaN alone
maxTokensOnChange_NoSignCheck(s, value) ==
    LET trimmed == Trim(value)
        intValue == ParseInt(trimmed)
    IN  IF trimmed = <<>> THEN Changed([s EXCEPT !.maxTokens = JNum(0)], TRUE)
        ELSE IF IsNaN(intValue)
        THEN [settings |-> s, save |-> FALSE, build |-> FALSE, notice |-> MaxTokensNotice]
        ELSE Changed([s EXCEPT !.maxTokens = intValue], TRUE)

maxTokensOnChange(s, value) ==
    LET trimmed == Trim(value)
        intValue == ParseInt(trimmed)
    IN  IF trimmed = <<>> THEN Changed([s EXCEPT !.maxTokens = JNum(0)], TRUE)
        ELSE IF IsNaN(intValue) \/ intValue.n < 0
        THEN [settings |-> s, save |-> FALSE, build |-> FALSE, notice |-> MaxTokensNotice]
        ELSE Changed([s EXCEPT !.maxTokens = intValue], TRUE)

----------------------------------------------------------------------------
(* State *)

NoModal == [kind |-> "none", assistant |-> Absent]

NoCmd == [cmd |-> "none", got |-> Absent, notice |-> "", opened |-> FALSE]

NoCall ==
    [phase |-> "idle", op |-> "none", assistant |-> Absent, stream |-> FALSE,
     has_img |-> FALSE, model |-> <<>>, includeMaxTokens |-> FALSE,
     omitMaxTokens |-> FALSE, requests |-> <<>>, responseText |-> <<>>,
     htmlEl |-> <<>>, chunks |-> 0, received |-> <<>>, errors |-> <<>>,
     result |-> JUndef,
     notice |-> "", outcome |-> "none"]

\* no prompt callback has just resumed
NoCallback ==
    [ran |-> FALSE, answer |-> JUndef, selected_text |-> <<>>, replaceSelection |-> JUndef,
     raised |-> FALSE, replaced |-> JUndef]

\* identities of the assistant objects something still refers to
LiveIds ==
    {assistants.text.id, assistants.speech.id, modal.assistant.id, call.assistant.id}
        \ {0}

InitRest ==
    /\ settings = Unloaded
    /\ loaded = FALSE
    /\ assistants = [text |-> Absent, speech |-> Absent]
    /\ factoryLog = <<>>
    /\ pending = [build |-> 0, plain |-> 0]
    /\ uiNotice = ""
    /\ lastCmd = NoCmd
    /\ modal = NoModal
    /\ call = NoCall
    /\ edits = 0
    /\ callback = NoCallback

\* this.assistants = ... of buildAssistants, on the settings s
Rebuild(s) ==
    LET built == buildAssistants(s, LiveIds)
    IN  /\ assistants' = built.map
        /\ factoryLog' = built.log

\* onload: loadSettings, then buildAssistants; the commands and the settings
\* tab exist from here on
Onload ==
    /\ ~loaded
    /\ loaded' = TRUE
    /\ settings' = loadSettings(data)
    /\ Rebuild(settings')
    /\ uiNotice' = ""
    /\ lastCmd' = NoCmd
    /\ callback' = NoCallback
    /\ UNCHANGED <<data, pending, modal, call, edits>>

\* a change handler up to its first await: the mutation, then saveData is
\* handed the settings object
Change(r) ==
    /\ loaded
    /\ edits < MaxEdits
    /\ edits' = edits + 1
    /\ settings' = r.settings
    /\ uiNotice' = r.notice
    /\ lastCmd' = NoCmd
    /\ callback' = NoCallback
    /\ IF r.save
       THEN /\ data' = saveData(r.settings)
            /\ pending' = IF r.build THEN [pending EXCEPT !.build = @ + 1]
                          ELSE [pending EXCEPT !.plain = @ + 1]
       ELSE UNCHANGED <<data, pending>>
    /\ UNCHANGED <<loaded, assistants, factoryLog, modal, call>>

ApiKeyChange == \E slot \in {1, 2}, v \in KeyInputs : Change(apiKeyOnChange(settings, slot, v))

BaseUrlChange ==
    \E slot \in {1, 2}, v \in UrlInputs : Change(baseUrlOnChange(settings, slot, v))

ProviderChange ==
    \E field \in {"textProvider", "speechProvider"}, v \in ProviderOptions :
        Change(providerOnChange(settings, field, v))

ModelNameChange == \E v \in ModelInputs : Change(modelNameOnChange(settings, v))

MaxTokensChange == \E v \in MaxTokensInputs : Change(maxTokensOnChange(settings, v))

SpeechModelChange == \E v \in SpeechModelInputs : Change(speechModelOnChange(settings, v))

ReplaceSelectionChange == \E v \in BOOLEAN : Change(replaceSelectionOnChange(settings, v))

LanguageChange == \E v \in LanguageInputs : Change(languageOnChange(settings, v))

\* saveData resolves and the handler goes on to this.plugin.buildAssistants()
FinishBuild ==
    /\ pending.build > 0
    /\ pending' = [pending EXCEPT !.build = @ - 1]
    /\ Rebuild(settings)
    /\ uiNotice' = ""
    /\ lastCmd' = NoCmd
    /\ callback' = NoCallback
    /\ UNCHANGED <<data, settings, loaded, modal, call, edits>>

\* saveData resolves and the handler has nothing left to do
FinishPlain ==
    /\ pending.plain > 0
    /\ pending' = [pending EXCEPT !.plain = @ - 1]
    /\ uiNotice' = ""
    /\ lastCmd' = NoCmd
    /\ callback' = NoCallback
    /\ UNCHANGED <<data, settings, loaded, assistants, factoryLog, modal, call, edits>>

----------------------------------------------------------------------------
(* The host commands registered by onload *)

ChatNotice == "Configure a provider for chat in mini assistant settings."

SpeechNotice == "Configure a provider for speech-to-text in mini assistant settings."

\* a command body that opens its dialog without looking at the assistant
command_NoGuard(assistant, notice) == [notice |-> "", open |-> TRUE]

\* if (!assistant) { new Notice(...); return; }  new XxxModal(...).open();
command(assistant, notice) ==
    IF assistant = Absent THEN [notice |-> notice, open |-> FALSE]
    ELSE [notice |-> "", open |-> TRUE]

Command(name, capability, notice) ==
    /\ loaded
    /\ modal = NoModal
    /\ callback' = NoCallback
    /\ LET assistant == getAssistant(capability)
           r == command(assistant, notice)
       IN  /\ lastCmd' = [cmd |-> name, got |-> assistant, notice |-> r.notice,
                          opened |-> r.open]
           /\ modal' = IF r.open THEN [kind |-> name, assistant |-> assistant] ELSE modal
    /\ uiNotice' = ""
    /\ UNCHANGED <<data, settings, loaded, assistants, factoryLog, pending, call, edits>>

ChatCommand == Command("chat", "text", ChatNotice)

PromptCommand == Command("prompt", "text", ChatNotice)

SpeechCommand == Command("speech", "speech", SpeechNotice)

\* the user closes the dialog
CloseModal ==
    /\ modal # NoModal
    /\ modal' = NoModal
    /\ uiNotice' = ""
    /\ lastCmd' = NoCmd
    /\ callback' = NoCallback
    /\ UNCHANGED <<data, settings, loaded, assistants, factoryLog, pending, call, edits>>

----------------------------------------------------------------------------
(* openai_api.ts: errors and the retry test *)

\* a thrown value: an OpenAI.APIError (message, code, error body), another
\* Error (message), a string (message is the string), or anything else
APIError(message, code, hasBody, body) ==
    [kind |-> "APIError", message |-> message, code |-> code, hasBody |-> hasBody,
     body |-> body]

OtherError(kind, message) ==
    [kind |-> kind, message |-> message, code |-> <<>>, hasBody |-> FALSE, body |-> <<>>]

RECURSIVE Join(_)
\* parts.join(" ")
Join(parts) ==
    IF parts = <<>> THEN <<>>
    ELSE IF Len(parts) = 1 THEN parts[1]
    ELSE parts[1] \o <<WS>> \o Join(Tail(parts))

\* /max[_-]?tokens|max_completion_tokens/i.test(h)
TokenLimitRegex(h) ==
    LET l == [i \in 1..Len(h) |-> Lower(h[i])]
        at(i, a) == i <= Len(l) /\ l[i] = a
    IN  \E i \in 1..Len(l) :
            /\ l[i] = "max"
            /\ \/ at(i + 1, "tokens")
               \/ (at(i + 1, "_") \/ at(i + 1, "-")) /\ at(i + 2, "tokens")
               \/ at(i + 1, "_") /\ at(i + 2, "completion") /\ at(i + 3, "_")
                    /\ at(i + 4, "tokens")

shouldRetryWithoutMaxTokens(err) ==
    LET parts ==
            IF err.kind = "APIError"
            THEN (IF err.message # <<>> THEN <<err.message>> ELSE <<>>)
                 \o (IF err.code # <<>> THEN <<err.code>> ELSE <<>>)
                 \o (IF err.hasBody THEN <<err.body>> ELSE <<>>)
            ELSE IF err.kind \in {"Error", "string"} THEN <<err.message>>
            ELSE <<>>
    IN  TokenLimitRegex(Join(parts))

----------------------------------------------------------------------------
(* openai_api.ts: the calls *)

OAI_IMAGE_CAPABLE_MODELS ==
    {<<"o", "1">>, <<"o", "1", "-pro">>, <<"o", "1", "-mini">>, <<"o", "3">>,
     <<"o", "3", "-mini">>, <<"o", "4", "-mini">>, <<"gpt-", "4", "o">>,
     <<"gpt-", "4", "o", "-mini">>, <<"gpt-", "4", "-turbo">>, <<"gpt-", "4", ".", "1">>}

\* the test with /o1/ for the pattern
is_reasonning_model_O1Only(model) ==
    \E i \in 1..(Len(model) - 1) : model[i] = "o" /\ model[i + 1] = "1"

\* /o[124]/.test(model)
is_reasonning_model(model) ==
    \E i \in 1..(Len(model) - 1) : model[i] = "o" /\ model[i + 1] \in {"1", "2", "4"}

\* reading el.innerHTML after el.innerHTML = text: the text is parsed and
\* serialized again, which writes a bare "&" as "&amp;"
innerHTML(text) == [i \in 1..Len(text) |-> IF text[i] = "&" THEN "&amp;" ELSE text[i]]

\* the assistant object a call runs on: `this` of the arrow-function members
This_LiveMap(c) == IF assistants.text # Absent THEN assistants.text ELSE c.assistant

This(c) == c.assistant

\* sendRequest without `htmlEl.innerHTML = ""`
sendRequest_NoClear(c, self, omitMaxTokens) ==
    LET tokenParam ==
            IF c.includeMaxTokens /\ ~omitMaxTokens
            THEN (IF is_reasonning_model(c.model) THEN "max_completion_tokens"
                  ELSE "max_tokens")
            ELSE "none"
        params == [op |-> "text", apiKey |-> self.apiKey, baseUrl |-> self.baseUrl,
                   model |-> c.model, stream |-> c.stream, tokenParam |-> tokenParam,
                   tokens |-> IF tokenParam = "none" THEN JUndef ELSE self.maxTokens]
    IN  [c EXCEPT !.phase = "awaiting",
                  !.omitMaxTokens = omitMaxTokens,
                  !.requests = Append(@, params)]

\* sendRequest up to `await this.apiFun.chat.completions.create(params)`
sendRequest(c, self, omitMaxTokens) ==
    LET tokenParam ==
            IF c.includeMaxTokens /\ ~omitMaxTokens
            THEN (IF is_reasonning_model(c.model) THEN "max_completion_tokens"
                  ELSE "max_tokens")
            ELSE "none"
        params == [op |-> "text", apiKey |-> self.apiKey, baseUrl |-> self.baseUrl,
                   model |-> c.model, stream |-> c.stream, tokenParam |-> tokenParam,
                   tokens |-> IF tokenParam = "none" THEN JUndef ELSE self.maxTokens]
    IN  [c EXCEPT !.phase = "awaiting",
                  !.omitMaxTokens = omitMaxTokens,
                  !.htmlEl = IF c.stream THEN <<>> ELSE @,
                  !.requests = Append(@, params)]

\* the call has returned r, having shown the Notice n ("" when none)
Returned(c, r, n) ==
    [c EXCEPT !.phase = "done", !.result = r, !.notice = n, !.outcome = "returned"]

\* the call has thrown to its caller
Raised(c) == [c EXCEPT !.phase = "done", !.outcome = "raised"]

ErrorNotice == "error"

\* a catch block that rethrows
catchSimple_Rethrow(c, err) == Raised(c)

\* catch (err) { this.display_error(err); }
catchSimple(c, err) == Returned(c, JUndef, ErrorNotice)

\* the catch block of text_api_call without the retry
catchText_NoRetry(c, self, err) == Returned(c, JUndef, ErrorNotice)

\* the catch block that forgets that the limit was already left out (three
\* requests at most, to keep the call finite)
catchText_RetryAgain(c, self, err) ==
    IF Len(c.requests) < 3 /\ shouldRetryWithoutMaxTokens(err)
    THEN sendRequest(c, self, TRUE)
    ELSE Returned(c, JUndef, ErrorNotice)

\* the catch block of OpenAIAssistant.text_api_call
catchText(c, self, err) ==
    IF ~c.omitMaxTokens /\ shouldRetryWithoutMaxTokens(err)
    THEN sendRequest(c, self, TRUE)
    ELSE Returned(c, JUndef, ErrorNotice)

\* text_api_call without the downgrade of the model
openaiTextCall_NoDowngrade(c, self) ==
    LET includeMaxTokens == IsFinite(self.maxTokens) /\ Positive(self.maxTokens)
    IN  sendRequest([c EXCEPT !.model = self.modelName,
                              !.includeMaxTokens = includeMaxTokens],
                    self, ~includeMaxTokens)

\* OpenAIAssistant.text_api_call up to its first await
openaiTextCall(c, self) ==
    LET model == IF c.has_img /\ self.modelName \notin OAI_IMAGE_CAPABLE_MODELS
                 THEN DEFAULT_TEXT_MODEL
                 ELSE self.modelName
        includeMaxTokens == IsFinite(self.maxTokens) /\ Positive(self.maxTokens)
    IN  sendRequest([c EXCEPT !.model = model, !.includeMaxTokens = includeMaxTokens],
                    self, ~includeMaxTokens)

\* AnthropicAssistant.text_api_call up to `await request(...)`
anthropicTextCall(c, self) ==
    [c EXCEPT !.phase = "awaiting", !.model = self.modelName,
              !.requests = Append(@, [op |-> "text", apiKey |-> self.apiKey,
                                      baseUrl |-> self.baseUrl \o <<"/messages">>,
                                      model |-> self.modelName, stream |-> FALSE,
                                      tokenParam |-> "max_tokens",
                                      tokens |-> self.maxTokens])]

\* img_api_call, whisper_api_call, text_to_speech_call of OpenAIAssistant up to
\* their await
openaiSimpleCall(c, self) ==
    [c EXCEPT !.phase = "awaiting",
              !.model = IF c.op = "whisper" THEN self.speechModelName ELSE <<>>,
              !.requests = Append(@, [op |-> c.op, apiKey |-> self.apiKey,
                                      baseUrl |-> self.baseUrl,
                                      model |-> IF c.op = "whisper"
                                                THEN self.speechModelName ELSE <<>>,
                                      stream |-> FALSE, tokenParam |-> "none",
                                      tokens |-> JUndef])]

UnsupportedNotice(op) ==
    CASE op = "img" ->
            "Image generation is unavailable for Anthropic's Messages API. Switch to an OpenAI-compatible gateway if you need this feature."
      [] op = "whisper" -> "Speech-to-text requires an OpenAI-compatible endpoint."
      [] OTHER -> "Text-to-speech is not supported for Anthropic's Messages API."

\* unsupported calls that send the request the OpenAI-compatible variant sends
anthropicSimpleCall_Sends(c) == openaiSimpleCall(c, c.assistant)

\* img_api_call, whisper_api_call, text_to_speech_call of AnthropicAssistant
anthropicSimpleCall(c) == Returned(c, JUndef, UnsupportedNotice(c.op))

\* the method op invoked on the assistant a
invoke(a, op, stream, has_img) ==
    LET c == [NoCall EXCEPT !.op = op, !.assistant = a, !.stream = stream,
                            !.has_img = has_img]
    IN  IF a.variant = "openai"
        THEN (IF op = "text" THEN openaiTextCall(c, This(c)) ELSE openaiSimpleCall(c, This(c)))
        ELSE (IF op = "text" THEN anthropicTextCall(c, This(c)) ELSE anthropicSimpleCall(c))

\* what a failure of the awaited request, or of the stream, leads to
onFailure(c, err) ==
    LET c1 == [c EXCEPT !.errors = Append(@, err)]
    IN  IF c.op = "text" /\ c.assistant.variant = "openai"
        THEN catchText(c1, This(c1), err)
        ELSE catchSimple(c1, err)

----------------------------------------------------------------------------
(* Inputs of the calls *)

\* chunks of one streamed attempt
MaxChunks == 2

\* chunk.choices?.[0]?.delta?.content of a chunk
ChunkContents == {JUndef, JStr(<<>>), JStr(<<"Hel">>), JStr(<<"lo">>), JStr(<<"&">>)}

\* what a successful request yields as the text of the answer
AnswerContents == {JUndef, JStr(<<"Hello">>)}

ErrorInputs ==
    {APIError(<<"Unsupported parameter: ", "max", "_", "tokens">>, <<>>, FALSE, <<>>),
     APIError(<<"Bad request">>, <<"unsupported_parameter">>, TRUE,
              <<"{\"param\":\"", "max", "_", "completion", "_", "tokens", "\"}">>),
     APIError(<<"Rate limit reached">>, <<>>, FALSE, <<>>),
     OtherError("Error", <<"MAX", "-", "TOKENS", " is not supported">>),
     OtherError("string", <<"max", "Tokens", " rejected">>),
     OtherError("other", <<>>)}

----------------------------------------------------------------------------
(* The dialogs invoke the assistant they were given; the provider answers *)

\* the callback handed to PromptModal: assistant.text_api_call([...]) without a
\* render target
PromptSubmit ==
    /\ modal.kind = "prompt"
    /\ call.phase = "idle"
    /\ call' = invoke(modal.assistant, "text", FALSE, FALSE)
    /\ modal' = NoModal
    /\ uiNotice' = ""
    /\ lastCmd' = NoCmd
    /\ callback' = NoCallback
    /\ UNCHANGED <<data, settings, loaded, assistants, factoryLog, pending, edits>>

\* the chat dialog: a streamed text call (with or without image content), an
\* image call or a speak call on its assistant
ChatInvoke ==
    /\ modal.kind = "chat"
    /\ call.phase = "idle"
    /\ \E op \in {"text", "img", "tts"}, has_img \in BOOLEAN :
            /\ has_img => op = "text"
            /\ call' = invoke(modal.assistant, op, op = "text", has_img)
    /\ uiNotice' = ""
    /\ lastCmd' = NoCmd
    /\ callback' = NoCallback
    /\ UNCHANGED <<data, settings, loaded, assistants, factoryLog, pending, modal, edits>>

\* the speech dialog: whisper_api_call on its assistant
SpeechInvoke ==
    /\ modal.kind = "speech"
    /\ call.phase = "idle"
    /\ call' = invoke(modal.assistant, "whisper", FALSE, FALSE)
    /\ uiNotice' = ""
    /\ lastCmd' = NoCmd
    /\ callback' = NoCallback
    /\ UNCHANGED <<data, settings, loaded, assistants, factoryLog, pending, modal, edits>>

CallStep(c) ==
    /\ call' = c
    /\ uiNotice' = ""
    /\ lastCmd' = NoCmd
    /\ callback' = NoCallback
    /\ UNCHANGED <<data, settings, loaded, assistants, factoryLog, pending, modal, edits>>

\* the awaited request rejects
RequestFails ==
    /\ call.phase = "awaiting"
    /\ \E err \in ErrorInputs : CallStep(onFailure(call, err))

\* the awaited request resolves: a stream opens, or the answer is returned
RequestSucceeds ==
    /\ call.phase = "awaiting"
    /\ IF call.stream
       THEN CallStep([call EXCEPT !.phase = "streaming", !.responseText = <<>>,
                                  !.chunks = 0, !.received = <<>>])
       ELSE \E content \in AnswerContents :
                CallStep(Returned(call,
                                  IF call.assistant.variant = "anthropic"
                                  THEN Coalesce(content, JStr(<<>>))
                                  ELSE content,
                                  ""))

\* the body of `for await (const chunk of response)` for one chunk
StreamChunk ==
    /\ call.phase = "streaming"
    /\ call.chunks < MaxChunks
    /\ \E content \in ChunkContents :
            CallStep(IF Truthy(content)
                     THEN [call EXCEPT !.chunks = @ + 1,
                                       !.received = Append(@, content),
                                       !.responseText = @ \o content.s,
                                       !.htmlEl = call.responseText \o content.s]
                     ELSE [call EXCEPT !.chunks = @ + 1,
                                       !.received = Append(@, content)])

\* the stream ends: return htmlEl.innerHTML, read back from the element
StreamEnds ==
    /\ call.phase = "streaming"
    /\ CallStep(Returned(call, JStr(innerHTML(call.htmlEl)), ""))

\* the stream throws
StreamFails ==
    /\ call.phase = "streaming"
    /\ \E err \in ErrorInputs : CallStep(onFailure(call, err))

\* the call was made by the callback of the prompt dialog: a text call
\* without a render target
IsPromptCall(c) == c.op = "text" /\ ~c.stream

\* the promise of a call made by a dialog settles: the dialog has the result
Settle ==
    /\ call.phase = "done"
    /\ ~IsPromptCall(call)
    /\ CallStep(NoCall)

\* what the user has selected in the editor when the prompt command runs
SelectionInputs == {<<>>, <<" ", "sel", " ">>}

\* the callback of the prompt dialog after `await assistant.text_api_call(...)`:
\* answer.trim() throws a TypeError on an answer that is undefined
promptCallback(answer, selected_text, replaceSelection) ==
    LET r == [NoCallback EXCEPT !.ran = TRUE, !.answer = answer,
                                !.selected_text = selected_text,
                                !.replaceSelection = replaceSelection]
    IN  IF ~Truthy(replaceSelection) /\ answer.t # "string"
        THEN [r EXCEPT !.raised = TRUE]
        ELSE LET final == IF ~Truthy(replaceSelection)
                          THEN JStr(selected_text \o <<"\n">> \o Trim(answer.s))
                          ELSE answer
             IN  IF Truthy(final) THEN [r EXCEPT !.replaced = JStr(Trim(final.s))]
                 ELSE r

\* the promise of a prompt call settles and the callback goes on with the
\* answer, the selection it captured and the replaceSelection setting of now
PromptResume ==
    /\ call.phase = "done"
    /\ IsPromptCall(call)
    /\ \E selection \in SelectionInputs :
            callback' = IF call.outcome = "raised"
                        THEN [NoCallback EXCEPT !.ran = TRUE, !.raised = TRUE,
                                                !.selected_text = Trim(selection),
                                                !.replaceSelection = settings.replaceSelection]
                        ELSE promptCallback(call.result, Trim(selection),
                                            settings.replaceSelection)
    /\ call' = NoCall
    /\ uiNotice' = ""
    /\ lastCmd' = NoCmd
    /\ UNCHANGED <<data, settings, loaded, assistants, factoryLog, pending, modal, edits>>

----------------------------------------------------------------------------
(* Specifications *)

\* blobs the plugin starts from in Spec: nothing saved, and a saved configuration
SavedBlob ==
    Blob([EmptyObject EXCEPT !.apiKey1 = JStr(<<"sk-1">>),
                             !.apiKey2 = JStr(<<"sk-2">>),
                             !.apiBaseUrl2 = JStr(<<"https://", "api.", "anthropic.com", "/v1">>),
                             !.maxTokens = JNum(500)])

SpecBlobs == {NoData, SavedBlob}

Init == data \in SpecBlobs /\ InitRest

Next ==
    \/ Onload
    \/ ApiKeyChange
    \/ BaseUrlChange
    \/ ProviderChange
    \/ ModelNameChange
    \/ MaxTokensChange
    \/ SpeechModelChange
    \/ ReplaceSelectionChange
    \/ LanguageChange
    \/ FinishBuild
    \/ FinishPlain
    \/ ChatCommand
    \/ PromptCommand
    \/ SpeechCommand
    \/ CloseModal

\* the settings tab, the capability map and the commands
Spec == Init /\ [][Next]_vars

----------------------------------------------------------------------------
(* The calls: commands open dialogs, dialogs invoke their assistant, the    *)
(* provider answers.                                                        *)

AnthropicBlob ==
    Blob([SavedBlob.obj EXCEPT !.textProvider = JNum(2), !.speechProvider = JNum(2)])

\* a reasoning model, no token limit, and no key for the speech slot
UnlimitedBlob ==
    Blob([EmptyObject EXCEPT !.apiKey1 = JStr(<<"sk-1">>),
                             !.modelName = JStr(<<"o", "1", "-mini">>),
                             !.speechProvider = JNum(2)])

\* a chat model that is not in OAI_IMAGE_CAPABLE_MODELS, with a token limit
PlainModelBlob ==
    Blob([SavedBlob.obj EXCEPT !.modelName = JStr(<<"gpt-", "3", ".", "5", "-turbo">>)])

CallBlobs == {NoData, SavedBlob, AnthropicBlob, UnlimitedBlob, PlainModelBlob}

InitCall == data \in CallBlobs /\ InitRest

NextCall ==
    \/ Onload
    \/ ChatCommand
    \/ PromptCommand
    \/ SpeechCommand
    \/ CloseModal
    \/ PromptSubmit
    \/ ChatInvoke
    \/ SpeechInvoke
    \/ RequestFails
    \/ RequestSucceeds
    \/ StreamChunk
    \/ StreamEnds
    \/ StreamFails
    \/ Settle
    \/ PromptResume

SpecCall == InitCall /\ [][NextCall]_vars

----------------------------------------------------------------------------
(* A prompt call in flight while the key, the model and the token limit     *)
(* are edited and the capability map is rebuilt.                            *)

InitRace == data \in {SavedBlob, AnthropicBlob} /\ InitRest

NextRace ==
    \/ Onload
    \/ ApiKeyChange
    \/ ModelNameChange
    \/ MaxTokensChange
    \/ FinishBuild
    \/ PromptCommand
    \/ CloseModal
    \/ PromptSubmit
    \/ RequestFails
    \/ RequestSucceeds
    \/ PromptResume

SpecRace == InitRace /\ [][NextRace]_vars

----------------------------------------------------------------------------
(* Migration alone: every raw blob of RawInputs is loaded once *)

AnthropicUrl == <<"https://", "api.", "anthropic.com", "/v1">>

RawObjects ==
    {[EmptyObject EXCEPT !.apiKey = r.apiKey, !.openAIapiKey = r.openAIapiKey,
                         !.anthropicApiKey = r.anthropicApiKey, !.apiKey1 = r.apiKey1,
                         !.apiKey2 = r.apiKey2, !.apiBaseUrl = r.apiBaseUrl,
                         !.apiBaseUrl1 = r.apiBaseUrl1, !.apiBaseUrl2 = r.apiBaseUrl2,
                         !.textProvider = r.textProvider,
                         !.speechProvider = r.speechProvider,
                         !.maxTokens = r.maxTokens, !.apiKey3 = r.apiKey3] :
        r \in [apiKey : {JUndef, JStr(<<" ">>), JStr(<<" ", "a", " ">>)},
               openAIapiKey : {JUndef, JStr(<<"b">>)},
               anthropicApiKey : {JUndef, JStr(<<"c">>)},
               apiKey1 : {JUndef, JStr(<<>>), JStr(<<" ", "k">>), JNum(5)},
               apiKey2 : {JUndef, JNum(7)},
               apiBaseUrl : {JUndef, JStr(<<" ", "https://", "legacy.example", "/">>)},
               apiBaseUrl1 : {JUndef, JStr(<<" ">>), JNull, JStr(AnthropicUrl)},
               apiBaseUrl2 : {JObj},
               textProvider : {JUndef, JStr(<<"2">>), JNum(3), JStr(<<"two">>)},
               speechProvider : {JUndef, JNum(2)},
               maxTokens : {JUndef, JNum(500), JNum(-5), JStr(<<"1", "2", "px">>),
                            JNaN, JHalf(2)},
               apiKey3 : {JStr(<<"sk-3">>)}]}

\* absent, empty, legacy-shaped and ill-typed blobs
RawInputs == {NoData} \cup {Blob(o) : o \in RawObjects}

InitMigrate == data \in RawInputs /\ InitRest

NextMigrate == Onload

SpecMigrate == InitMigrate /\ [][NextMigrate]_vars

----------------------------------------------------------------------------
----------------------------------------------------------------------------
(* Helpers of the formulas about the capability map *)

\* the step runs buildAssistants: onload, or a handler resuming after its await
RebuildStep == (~loaded /\ loaded') \/ pending'.build < pending.build

\* the slot a capability is configured for in the settings s
SlotOf(s, capability) ==
    normalizeProviderSlot(IF capability = "text" THEN s.textProvider ELSE s.speechProvider)

\* the API key of a slot in the settings s, trimmed
TrimmedKey(s, slot) == Trim(ToStr(IF slot = 1 THEN s.apiKey1 ELSE s.apiKey2))

\* both capabilities resolved from the settings s, object identities aside
Resolved(s) == [c \in Capabilities |-> Values(buildAssistants(s, {}).map[c])]

CapabilityOf(cmd) == IF cmd = "speech" THEN "speech" ELSE "text"

----------------------------------------------------------------------------
C5_CommandsSeeCurrentSettings ==
    lastCmd.cmd # "none" =>
        Values(lastCmd.got) = Resolved(settings)[CapabilityOf(lastCmd.cmd)]

(* C6: after every rebuild a capability is absent exactly when the trimmed   *)
(* API key of its normalized slot is blank; otherwise it holds an assistant  *)
(* with that key, and createAssistant was invoked for no slot whose key is   *)
(* blank.                                                                    *)
C6_AbsentIffBlankKey ==
    [][RebuildStep =>
        /\ \A c \in Capabilities :
              LET key == TrimmedKey(settings', SlotOf(settings', c))
              IN  /\ (assistants'[c] = Absent) <=> (key = <<>>)
                  /\ assistants'[c] # Absent => assistants'[c].apiKey = key
        /\ \A i \in 1..Len(factoryLog') : TrimmedKey(settings', factoryLog'[i]) # <<>>
    ]_vars

\* text on a slot whose key was blanked, speech on a slot with a key
C6_Witness ==
    /\ loaded
    /\ pending.build = 0
    /\ edits > 0
    /\ settings.apiKey1 = JStr(<<>>)
    /\ SlotOf(settings, "text") = 1
    /\ SlotOf(settings, "speech") = 2
    /\ assistants.text = Absent
    /\ assistants.speech # Absent
    /\ factoryLog = <<2>>

(* C7: within one rebuild createAssistant is invoked at most once per slot;  *)
(* when both capabilities normalize to the same slot it is invoked at most   *)
(* once and both entries hold the same object (or are both absent); no       *)
(* assistant of the previous map is in the new one.                          *)
C7_OneAssistantPerSlot ==
    [][RebuildStep =>
        /\ \A i, j \in 1..Len(factoryLog') : factoryLog'[i] = factoryLog'[j] => i = j
        /\ SlotOf(settings', "text") = SlotOf(settings', "speech") =>
              /\ Len(factoryLog') <= 1
              /\ assistants'.text = assistants'.speech
        /\ \A c \in Capabilities :
              assistants'[c] # Absent =>
                  assistants'[c].id \notin {assistants.text.id, assistants.speech.id}
    ]_vars

\* both capabilities on slot 1 share the one assistant a rebuild after an edit made
C7_Witness ==
    /\ loaded
    /\ edits > 0
    /\ pending.build = 0
    /\ SlotOf(settings, "text") = SlotOf(settings, "speech")
    /\ factoryLog = <<1>>
    /\ assistants.text # Absent
    /\ assistants.text = assistants.speech

----------------------------------------------------------------------------
(* Helpers of the formulas about the calls *)

\* the call is an OpenAIAssistant.text_api_call
IsOpenAIText(c) == c.phase # "idle" /\ c.op = "text" /\ c.assistant.variant = "openai"

\* the texts an error carries: message, code and body
ErrorTexts(err) ==
    IF err.kind = "APIError"
    THEN {err.message, err.code} \cup (IF err.hasBody THEN {err.body} ELSE {})
    ELSE IF err.kind \in {"Error", "string"} THEN {err.message}
    ELSE {}

\* the text h contains the atoms of pat in a row, letter case aside
Contains(h, pat) ==
    \E i \in 1..Len(h) :
        \A j \in 1..Len(pat) : i + j - 1 <= Len(h) /\ Lower(h[i + j - 1]) = pat[j]

\* the error names max_tokens or max_completion_tokens
NamesTokenLimit(err) ==
    \E t \in ErrorTexts(err) :
        \/ Contains(t, <<"max", "_", "tokens">>)
        \/ Contains(t, <<"max", "_", "completion", "_", "tokens">>)

\* ... or spells it max-tokens or maxtokens
NamesTokenLimitLoosely(err) ==
    \/ NamesTokenLimit(err)
    \/ \E t \in ErrorTexts(err) :
            Contains(t, <<"max", "-", "tokens">>) \/ Contains(t, <<"max", "tokens">>)

\* the retry rule, for a way M of recognising the error: at most two requests;
\* a first failure recognised by M of a request that carried the token limit is
\* followed by one request without it, whose success is the result of the call;
\* any other first failure ends the call
RetryContract(M(_)) ==
    IsOpenAIText(call) =>
        /\ Len(call.requests) <= 2
        /\ Len(call.errors) >= 1 =>
              IF call.requests[1].tokenParam # "none" /\ M(call.errors[1])
              THEN /\ Len(call.requests) = 2
                   /\ call.requests[2].tokenParam = "none"
                   /\ (call.phase = "done" /\ Len(call.errors) = 1) =>
                          /\ call.outcome = "returned"
                          /\ call.notice = ""
                          /\ call.stream => call.result = JStr(innerHTML(call.htmlEl))
              ELSE /\ Len(call.requests) = 1
                   /\ call.phase = "done"

RECURSIVE Concat(_)
\* the non-empty fragments among the chunk contents, concatenated in order
Concat(contents) ==
    IF contents = <<>> THEN <<>>
    ELSE (IF Head(contents).t = "string" THEN Head(contents).s ELSE <<>>)
         \o Concat(Tail(contents))

----------------------------------------------------------------------------
(* C1 as stated: a failed attempt that carried the token limit and whose     *)
(* error matches max_tokens or max_completion_tokens (case-insensitive) is   *)
(* retried exactly once without any token-limit parameter, and the retry's   *)
(* success is the result; no retry when the parameter was not included or    *)
(* the error does not match.                                                 *)
C1_RetryOnTokenLimitError == RetryContract(NamesTokenLimit)

(* C1 amended: as above, where an error also matches when it spells the      *)
(* parameter max-tokens or maxtokens.                                        *)
C1_RetryOnTokenLimitErrorLoosely == RetryContract(NamesTokenLimitLoosely)

\* the retry without the parameter succeeded after a max_tokens rejection
C1_Witness ==
    /\ IsOpenAIText(call)
    /\ call.phase = "done"
    /\ Len(call.requests) = 2
    /\ call.requests[1].tokenParam = "max_tokens"
    /\ call.requests[1].tokens = JNum(500)
    /\ call.requests[2].tokenParam = "none"
    /\ Len(call.errors) = 1
    /\ NamesTokenLimit(call.errors[1])
    /\ call.result = JStr(<<"Hello">>)

(* C2 as stated: no failure propagates out of an assistant call, and every   *)
(* failure at any point of a call (the request, a chunk of the stream, the   *)
(* retry) leaves the call resolved to an absent result with a notice shown.  *)
C2_EveryFailureNoticed ==
    /\ call.outcome # "raised"
    /\ (call.phase = "done" /\ Len(call.errors) > 0) =>
            call.notice = ErrorNotice /\ call.result = JUndef

(* C2 amended: no failure propagates out of an assistant call, and every     *)
(* failure that is not answered by the token-limit retry of the              *)
(* OpenAI-compatible text call leaves the call resolved to an absent result  *)
(* with a notice shown.                                                      *)
C2_NoFailurePropagates ==
    /\ call.outcome # "raised"
    /\ Len(call.errors) > 0 =>
          \/ /\ call.phase = "done"
             /\ call.notice = ErrorNotice
             /\ call.result = JUndef
             /\ Len(call.errors) = Len(call.requests)
          \/ /\ IsOpenAIText(call)
             /\ Len(call.errors) = 1
             /\ Len(call.requests) = 2
             /\ call.requests[1].tokenParam # "none"
             /\ call.requests[2].tokenParam = "none"

\* the retry of a streamed call failed after delivering a chunk
C2_Witness ==
    /\ IsOpenAIText(call)
    /\ call.stream
    /\ call.phase = "done"
    /\ Len(call.errors) = 2
    /\ call.htmlEl # <<>>
    /\ call.notice = ErrorNotice
    /\ call.result = JUndef
    /\ call.outcome = "returned"

C8_AbsentCapabilityAborts ==
    [][(lastCmd'.cmd # "none" /\ getAssistant(CapabilityOf(lastCmd'.cmd)) = Absent) =>
        /\ lastCmd'.notice = IF lastCmd'.cmd = "speech" THEN SpeechNotice ELSE ChatNotice
        /\ ~lastCmd'.opened
        /\ modal' = modal
        /\ call' = call
    ]_vars

\* speech-to-text was refused while chat is configured
C8_Witness ==
    /\ lastCmd.cmd = "speech"
    /\ lastCmd.got = Absent
    /\ lastCmd.notice = SpeechNotice
    /\ assistants.text # Absent
    /\ modal = NoModal

(* C9: in streaming mode the render target is cleared first; after each      *)
(* chunk it equals the concatenation, in arrival order, of the non-empty     *)
(* fragments received so far; when the stream ends the returned text equals  *)
(* that concatenation.                                                       *)
C9_StreamAggregation ==
    (IsOpenAIText(call) /\ call.stream) =>
        /\ call.phase = "awaiting" => call.htmlEl = <<>>
        /\ call.phase = "streaming" => call.htmlEl = Concat(call.received)
        /\ (call.phase = "done" /\ call.notice = "") =>
                call.result = JStr(Concat(call.received))

----------------------------------------------------------------------------
(* Provider-slot normalization alone: blobs whose textProvider and           *)
(* speechProvider are drawn from SlotInputs are loaded once.                 *)

\* raw values of a provider field: absent, numbers, numeric and other strings
SlotInputs ==
    {JUndef, JNull, JNum(0), JNum(1), JNum(2), JNum(3), JNum(-2), JHalf(2), JNaN,
     JStr(<<"2">>), JStr(<<"1">>), JStr(<<"two">>), JStr(<<>>), JStr(<<"2", "px">>),
     JStr(<<"2", "3">>), JStr(<<" ", "2">>), JBool(TRUE), JObj}

SlotBlobs ==
    {Blob([EmptyObject EXCEPT !.apiKey1 = JStr(<<"sk-1">>), !.textProvider = a,
                              !.speechProvider = b]) : a, b \in SlotInputs}

InitSlots == data \in SlotBlobs /\ InitRest

NextSlots == Onload

SpecSlots == InitSlots /\ [][NextSlots]_vars

----------------------------------------------------------------------------
(* Helpers of the formulas about normalizeProviderSlot *)

\* the value is the number 2 or the string "2"
ExactlyTwo(v) == v \in {JNum(2), JStr(<<"2">>)}

\* the text of the value, after leading white space and an optional "+", is a
\* "2" that no digit follows
ReadsAsTwo(v) ==
    LET t == TrimLeft(ToStr(Coalesce(v, JStr(<<>>))))
        u == IF t # <<>> /\ Head(t) = "+" THEN Tail(t) ELSE t
    IN  /\ u # <<>>
        /\ Head(u) = "2"
        /\ Len(u) > 1 => ~IsDigit(u[2])

\* the slots the loaded settings hold are those Two(_) gives for the raw values
SlotsFollow(Two(_)) ==
    loaded =>
        /\ settings.textProvider = JNum(IF Two(data.obj.textProvider) THEN 2 ELSE 1)
        /\ settings.speechProvider = JNum(IF Two(data.obj.speechProvider) THEN 2 ELSE 1)

(* C11 as stated: normalizeSlot returns 2 only when the input is exactly the *)
(* number 2 or the string "2", and 1 for every other input, a string that    *)
(* merely starts with the digit 2 included.                                  *)
C11_TwoOnlyForExactTwo == SlotsFollow(ExactlyTwo)

(* C11 amended: normalizeSlot returns 2 exactly when the text of the input,  *)
(* read as parseInt reads it (leading white space and a "+" skipped, then    *)
(* the longest run of digits), is 2, and 1 for every other input.            *)
C11_TwoWhenParsedAsTwo == SlotsFollow(ReadsAsTwo)

\* 3 and "2px" have been normalized, to 1 and to 2
C11_Witness ==
    /\ loaded
    /\ data.obj.textProvider = JNum(3)
    /\ data.obj.speechProvider = JStr(<<"2", "px">>)
    /\ settings.textProvider = JNum(1)
    /\ settings.speechProvider = JNum(2)

----------------------------------------------------------------------------
(* The assistant factory alone: blobs whose base URLs are drawn from         *)
(* FactoryUrls are loaded, and the base-URL fields are edited.               *)

\* a host that is not Anthropic's, with anthropic.com in the path
PathUrl == <<"https://", "proxy.example", "/", "anthropic.com", "/v1">>

\* base URLs as saved: missing, blank, the default, Anthropic's in either
\* letter case, a gateway, and PathUrl
FactoryUrls ==
    {JUndef, JStr(<<" ">>), JStr(DEFAULT_API_BASE_URL), JStr(AnthropicUrl),
     JStr(<<"https://", "API.", "ANTHROPIC.COM", "/v1">>),
     JStr(<<"https://", "gateway.example", "/v1", "/">>), JStr(PathUrl)}

FactoryBlobs ==
    {Blob([EmptyObject EXCEPT !.apiKey1 = JStr(<<"sk-1">>), !.apiKey2 = JStr(<<"sk-2">>),
                              !.apiBaseUrl1 = u1, !.apiBaseUrl2 = u2,
                              !.textProvider = JNum(1), !.speechProvider = p]) :
        u1, u2 \in FactoryUrls, p \in {JNum(1), JNum(2)}}

InitFactory == data \in FactoryBlobs /\ InitRest

NextFactory ==
    \/ Onload
    \/ BaseUrlChange
    \/ FinishBuild

SpecFactory == InitFactory /\ [][NextFactory]_vars

----------------------------------------------------------------------------
(* Helpers of the formulas about createAssistant *)

\* the base URL of a slot as the settings s hold it, trimmed
TrimmedUrl(s, slot) == Trim(ToStr(IF slot = 1 THEN s.apiBaseUrl1 ELSE s.apiBaseUrl2))

\* the atoms of a URL that begin its path
IsPathAtom(a) == a \in {"/", "/v1"}

RECURSIVE UpToPath(_)
\* the atoms before the first one of the path
UpToPath(u) ==
    IF u = <<>> \/ IsPathAtom(Head(u)) THEN <<>> ELSE <<Head(u)>> \o UpToPath(Tail(u))

\* the host of a URL: what stands between the scheme and the path
HostOf(url) == IF url = <<>> THEN <<>> ELSE UpToPath(Tail(url))

HostNamesAnthropic(url) == Contains(HostOf(url), <<"anthropic.com">>)

UrlNamesAnthropic(url) == Contains(url, <<"anthropic.com">>)

\* after a rebuild, every assistant of the map is of the Anthropic variant
\* exactly when A(_) holds of the effective base URL of its slot, and an
\* assistant of a slot whose base URL is blank is an OpenAI-compatible one on
\* the default base URL
FactoryContract(A(_)) ==
    RebuildStep =>
        \A c \in Capabilities :
            LET a == assistants'[c]
                url == TrimmedUrl(settings', SlotOf(settings', c))
                effectiveBase == IF url = <<>> THEN DEFAULT_API_BASE_URL ELSE url
            IN  a # Absent =>
                    /\ a.variant = IF A(effectiveBase) THEN "anthropic" ELSE "openai"
                    /\ url = <<>> =>
                          a.variant = "openai" /\ a.baseUrl = DEFAULT_API_BASE_URL

(* C12 as stated: the factory constructs the Anthropic variant exactly when  *)
(* the host of the effective base URL contains anthropic.com, letter case    *)
(* aside, and the OpenAI-compatible variant for every other URL; a blank     *)
(* base URL of either slot becomes https://api.openai.com/v1 and yields the  *)
(* OpenAI-compatible variant.                                                *)
C12_AnthropicIffHostMatches == [][FactoryContract(HostNamesAnthropic)]_vars

(* C12 amended: as above, with anthropic.com looked for anywhere in the      *)
(* effective base URL, its path included, not in its host alone.             *)
C12_AnthropicIffUrlMatches == [][FactoryContract(UrlNamesAnthropic)]_vars

\* text on Anthropic's URL in capitals, speech on a slot whose URL was blanked
C12_Witness ==
    /\ loaded
    /\ edits > 0
    /\ pending.build = 0
    /\ settings.apiBaseUrl1 = JStr(<<"https://", "API.", "ANTHROPIC.COM", "/v1">>)
    /\ settings.apiBaseUrl2 = JStr(<<>>)
    /\ SlotOf(settings, "speech") = 2
    /\ assistants.text.variant = "anthropic"
    /\ assistants.speech.variant = "openai"
    /\ assistants.speech.baseUrl = DEFAULT_API_BASE_URL

----------------------------------------------------------------------------
(* C13: for every text call made by an assistant built while maxTokens is 0, *)
(* on either provider variant, no request sent carries a token-limit         *)
(* parameter (max_tokens or max_completion_tokens).                          *)
C13_ZeroMeansNoTokenLimit ==
    (call.phase # "idle" /\ call.op = "text" /\ call.assistant.maxTokens = JNum(0)) =>
        \A i \in 1..Len(call.requests) : call.requests[i].tokenParam = "none"

----------------------------------------------------------------------------
(* C14: when a message of an OpenAI-compatible text call has image content   *)
(* and the configured model is not in the image-capable list, every request  *)
(* of the call, a retry included, is sent with the default text model; a     *)
(* call without image content, or with a capable model, is sent with the     *)
(* configured model; and no step of a call changes the model name of the     *)
(* assistant, the settings or the persisted blob.                            *)
C14_DowngradeForThisCallOnly ==
    [][/\ IsOpenAIText(call') =>
            \A i \in 1..Len(call'.requests) :
                call'.requests[i].model =
                    IF call'.has_img /\ call'.assistant.modelName \notin OAI_IMAGE_CAPABLE_MODELS
                    THEN DEFAULT_TEXT_MODEL
                    ELSE call'.assistant.modelName
       /\ call' # call =>
            /\ settings' = settings
            /\ data' = data
            /\ assistants' = assistants
            /\ modal'.assistant \in {modal.assistant, Absent}
            /\ (call.phase # "idle" /\ call'.phase # "idle") =>
                    call'.assistant = call.assistant
      ]_vars

\* a call with image content on gpt-3.5-turbo is being retried, both requests
\* with the default model, the assistant and the settings still on gpt-3.5-turbo
C14_Witness ==
    /\ IsOpenAIText(call)
    /\ call.has_img
    /\ Len(call.requests) = 2
    /\ call.requests[1].model = DEFAULT_TEXT_MODEL
    /\ call.requests[2].model = DEFAULT_TEXT_MODEL
    /\ call.assistant.modelName = <<"gpt-", "3", ".", "5", "-turbo">>
    /\ assistants.text = call.assistant
    /\ settings.modelName = JStr(<<"gpt-", "3", ".", "5", "-turbo">>)

----------------------------------------------------------------------------
(* C15: on the Anthropic variant the image, transcribe and speak calls send  *)
(* no request: each shows its fixed notice and resolves, to nothing, without *)
(* raising.                                                                  *)
C15_AnthropicUnsupportedCalls ==
    (call.phase # "idle" /\ call.assistant.variant = "anthropic" /\ call.op # "text") =>
        /\ call.requests = <<>>
        /\ call.phase = "done"
        /\ call.outcome = "returned"
        /\ call.result = JUndef
        /\ call.notice =
              CASE call.op = "img" ->
                      "Image generation is unavailable for Anthropic's Messages API. Switch to an OpenAI-compatible gateway if you need this feature."
                [] call.op = "whisper" ->
                      "Speech-to-text requires an OpenAI-compatible endpoint."
                [] call.op = "tts" ->
                      "Text-to-speech is not supported for Anthropic's Messages API."

\* the speech dialog asked an Anthropic assistant to transcribe
C15_Witness ==
    /\ modal.kind = "speech"
    /\ call.op = "whisper"
    /\ call.assistant.variant = "anthropic"
    /\ call.phase = "done"
    /\ call.notice = "Speech-to-text requires an OpenAI-compatible endpoint."

----------------------------------------------------------------------------
(* Helpers of the formulas about the legacy keys *)

\* a string with something other than white space in it
NonBlankString(v) == v.t = "string" /\ Trim(v.s) # <<>>

\* the first non-blank of apiKey, openAIapiKey, anthropicApiKey, trimmed
SeedKey(d) ==
    IF NonBlankString(d.apiKey) THEN Trim(d.apiKey.s)
    ELSE IF NonBlankString(d.openAIapiKey) THEN Trim(d.openAIapiKey.s)
    ELSE IF NonBlankString(d.anthropicApiKey) THEN Trim(d.anthropicApiKey.s)
    ELSE <<>>

(* C16: migration seeds apiKey1 with the first non-blank of apiKey,          *)
(* openAIapiKey, anthropicApiKey, in that order and trimmed, only when the   *)
(* raw apiKey1 is not a string; a raw apiKey1 that is a string, even an      *)
(* empty one, is kept, trimmed; the three legacy fields are not in the       *)
(* result.                                                                   *)
C16_LegacyKeySeedsApiKey1 ==
    (loaded /\ data.truthy) =>
        /\ settings.apiKey1 =
              IF data.obj.apiKey1.t = "string" THEN JStr(Trim(data.obj.apiKey1.s))
              ELSE JStr(SeedKey(data.obj))
        /\ \A f \in {"apiKey", "openAIapiKey", "anthropicApiKey"} : settings[f] = JUndef

\* apiKey " a " wins over openAIapiKey "b" and replaces an apiKey1 that is a number
C16_Witness ==
    /\ loaded
    /\ data.truthy
    /\ data.obj.apiKey = JStr(<<" ", "a", " ">>)
    /\ data.obj.openAIapiKey = JStr(<<"b">>)
    /\ data.obj.anthropicApiKey = JStr(<<"c">>)
    /\ data.obj.apiKey1 = JNum(5)
    /\ settings.apiKey1 = JStr(<<"a">>)
    /\ settings.apiKey = JUndef

----------------------------------------------------------------------------
(* Helpers of the formulas about the Max Tokens field *)

\* the entry is made of digits alone
AllDigits(t) == t # <<>> /\ \A i \in 1..Len(t) : IsDigit(t[i])

\* the entry begins with a digit
DigitsFirst(t) == t # <<>> /\ IsDigit(Head(t))

\* the number the digits at the start of the entry spell
LeadingNumber(t) == DigitsValue(SubSeq(t, 1, LeadingDigits(t)))

\* the step is the Max Tokens handler run on the entry v
MaxTokensEntered(v) == Change(maxTokensOnChange(settings, v))

\* the entry was refused: a notice, and nothing saved, stored or rebuilt
EntryRejected ==
    /\ uiNotice' = "Max tokens must be a positive number or blank."
    /\ settings' = settings
    /\ data' = data
    /\ assistants' = assistants
    /\ pending' = pending

\* the entry was taken: n is stored and saved, and a rebuild is to follow
EntryStored(n) ==
    /\ uiNotice' = ""
    /\ settings' = [settings EXCEPT !.maxTokens = JNum(n)]
    /\ data' = saveData(settings')
    /\ pending'.build = pending.build + 1

\* what the handler does with every entry: blank stores 0, an entry that
\* Good(_) accepts stores the number at its start, any other is rejected
EntryContract(Good(_)) ==
    \A v \in MaxTokensInputs :
        MaxTokensEntered(v) =>
            LET t == Trim(v)
            IN  IF t = <<>> THEN EntryStored(0)
                ELSE IF Good(t) THEN EntryStored(LeadingNumber(t))
                ELSE EntryRejected

----------------------------------------------------------------------------
(* The calls of the OpenAI-compatible assistants, where every request that   *)
(* was sent resolves or rejects and every stream that was opened ends or     *)
(* throws.                                                                   *)

InitRetry == data \in {SavedBlob, UnlimitedBlob} /\ InitRest

NextRetry == NextCall

SpecRetry ==
    /\ InitRetry
    /\ [][NextRetry]_vars
    /\ WF_vars(RequestFails \/ RequestSucceeds)
    /\ WF_vars(StreamEnds \/ StreamFails)

(* C18: every OpenAI-compatible text call ends, after at most two requests:  *)
(* the failure of a second attempt, or of an attempt made without the        *)
(* token-limit parameter, ends the call, whatever its error says.            *)
C18_AtMostTwoRequests ==
    /\ [](IsOpenAIText(call) =>
            /\ Len(call.requests) <= 2
            /\ Len(call.errors) <= Len(call.requests)
            /\ \A i \in 1..Len(call.errors) :
                  (i = 2 \/ call.requests[i].tokenParam = "none") =>
                      /\ call.phase = "done"
                      /\ Len(call.requests) = i)
    /\ (IsOpenAIText(call) ~> call.phase = "done")

\* both attempts were rejected with an error that names max_tokens
C18_Witness ==
    /\ IsOpenAIText(call)
    /\ call.phase = "done"
    /\ Len(call.requests) = 2
    /\ Len(call.errors) = 2
    /\ NamesTokenLimit(call.errors[1])
    /\ NamesTokenLimit(call.errors[2])

----------------------------------------------------------------------------
(* The token-limit parameter alone: prompt calls on OpenAI-compatible        *)
(* assistants built from the models of ParamModels and the limits of         *)
(* ParamLimits.                                                              *)

ParamModels ==
    {<<"gpt-", "4", "o", "-mini">>, <<"o", "1", "-mini">>, <<"o", "3", "-mini">>,
     <<"o", "4", "-mini">>, <<"gpt-", "3", ".", "5", "-turbo">>,
     <<"solar-pr", "o", "2">>}

ParamLimits == {JUndef, JNum(0), JNum(1), JNum(500)}

ParamBlobs ==
    {Blob([EmptyObject EXCEPT !.apiKey1 = JStr(<<"sk-1">>), !.modelName = JStr(m),
                              !.maxTokens = n]) :
        m \in ParamModels, n \in ParamLimits}

InitParam == data \in ParamBlobs /\ InitRest

NextParam ==
    \/ Onload
    \/ PromptCommand
    \/ CloseModal
    \/ PromptSubmit
    \/ RequestFails
    \/ RequestSucceeds
    \/ PromptResume

SpecParam == InitParam /\ [][NextParam]_vars

----------------------------------------------------------------------------
(* Helpers of the formulas about the token-limit parameter *)

\* the identifier begins with o1, o2 or o4
ReasoningPrefix(m) == Len(m) >= 2 /\ m[1] = "o" /\ m[2] \in {"1", "2", "4"}

\* the identifier has o1, o2 or o4 somewhere in it
ReasoningAnywhere(m) ==
    \E i \in 1..Len(m) : i < Len(m) /\ m[i] = "o" /\ m[i + 1] \in {"1", "2", "4"}

\* the limit is a finite number greater than 0
FiniteAndPositive(v) == v.t = "number" /\ v.x = "" /\ v.n > 0

\* the first request carries the limit exactly when it is finite and greater
\* than 0, no other request carries it, and a request that carries it names
\* it max_completion_tokens when R(_) holds of its model and max_tokens
\* otherwise
ParamContract(R(_)) ==
    IsOpenAIText(call) =>
        \A i \in 1..Len(call.requests) :
            LET r == call.requests[i]
            IN  /\ r.tokenParam # "none" <=>
                        (i = 1 /\ FiniteAndPositive(call.assistant.maxTokens))
                /\ r.tokenParam # "none" =>
                        /\ r.tokens = call.assistant.maxTokens
                        /\ r.tokenParam = IF R(r.model) THEN "max_completion_tokens"
                                          ELSE "max_tokens"

(* C19 as stated: the token-limit parameter of an OpenAI-compatible chat     *)
(* request is named max_completion_tokens when the model identifier begins   *)
(* with o1, o2 or o4 and max_tokens otherwise, and is included only if the   *)
(* configured limit is finite and greater than 0.                            *)
C19_ParamNamedByPrefix == ParamContract(ReasoningPrefix)

(* C19 amended: as above, with max_completion_tokens used when the model     *)
(* identifier has o1, o2 or o4 anywhere in it, not at its start alone.       *)
C19_ParamNamedByPattern == ParamContract(ReasoningAnywhere)

\* o4-mini with a limit of 1: the limit went out as max_completion_tokens and
\* the retry went out without it
C19_Witness ==
    /\ IsOpenAIText(call)
    /\ call.assistant.modelName = <<"o", "4", "-mini">>
    /\ call.assistant.maxTokens = JNum(1)
    /\ Len(call.requests) = 2
    /\ call.requests[1].tokenParam = "max_completion_tokens"
    /\ call.requests[1].tokens = JNum(1)
    /\ call.requests[2].tokenParam = "none"

----------------------------------------------------------------------------
(* C20: in streaming mode every attempt starts with the render target        *)
(* cleared, so the fragments of a failed first attempt are gone when the     *)
(* call is retried; whenever a streamed text call returns a result, the      *)
(* render target holds the fragments of the final attempt and nothing else,  *)
(* and the returned text is what the render target holds.                    *)
C20_RetryStartsFromEmptyTarget ==
    (IsOpenAIText(call) /\ call.stream) =>
        /\ call.phase = "awaiting" => call.htmlEl = <<>>
        /\ (call.phase = "done" /\ call.outcome = "returned" /\ call.result # JUndef) =>
                /\ call.htmlEl = Concat(call.received)
                /\ call.result = JStr(innerHTML(call.htmlEl))

\* the first attempt failed after a fragment had arrived, and the retry has
\* been sent with the render target empty
C20_Witness ==
    /\ IsOpenAIText(call)
    /\ call.stream
    /\ call.phase = "awaiting"
    /\ Len(call.requests) = 2
    /\ Len(call.errors) = 1
    /\ call.received # <<>>
    /\ Concat(call.received) # <<>>
    /\ call.htmlEl = <<>>

----------------------------------------------------------------------------
(* The prompt command from the selection to the editor: a saved           *)
(* configuration, the Replace Selection toggle, the prompt dialog and the *)
(* call its callback awaits                                               *)

InitPrompt == data \in {SavedBlob, AnthropicBlob} /\ InitRest

NextPrompt ==
    \/ Onload
    \/ ReplaceSelectionChange
    \/ FinishPlain
    \/ PromptCommand
    \/ CloseModal
    \/ PromptSubmit
    \/ RequestFails
    \/ RequestSucceeds
    \/ PromptResume

SpecPrompt == InitPrompt /\ [][NextPrompt]_vars

\* C21: when the text call of the prompt command resolves to an absent
\* result, the callback leaves the editor selection as it is and raises no
\* exception, whatever the value of the replaceSelection setting.
C21_AbsentAnswerLeavesEditorAlone ==
    (callback.ran /\ callback.answer = JUndef)
        => (~callback.raised /\ callback.replaced = JUndef)

----------------------------------------------------------------------------
(* The settings tab on a settings object loaded from any saved blob: the  *)
(* provider dropdowns and the Max Tokens field, with entries that         *)
(* parseInt takes to every kind of number                                 *)

\* what a saved blob may hold for a provider field
EditSlots == {JUndef, JStr(<<"2">>), JNum(3)}

\* what a saved blob may hold for maxTokens
EditLimits == {JUndef, JNum(-5), JHalf(2), JStr(<<"abc">>), JStr(<<"7", "px">>)}

EditBlobs ==
    {Blob([EmptyObject EXCEPT !.apiKey1 = JStr(<<"sk-1">>), !.textProvider = a,
                              !.speechProvider = b, !.maxTokens = n]) :
        a, b \in EditSlots, n \in EditLimits}

\* what the user may type into the Max Tokens field
EditEntries ==
    {<<" ">>, <<"abc">>, <<"-", "1">>, <<" ", "1", "2", "px">>, <<"1", LongDigits>>,
     <<"-", LongDigits>>}

\* the Max Tokens handler on one of these entries
MaxTokensEntry == \E v \in EditEntries : Change(maxTokensOnChange(settings, v))

InitEdit == data \in EditBlobs /\ InitRest

NextEdit ==
    \/ Onload
    \/ ProviderChange
    \/ MaxTokensEntry
    \/ FinishBuild

SpecEdit == InitEdit /\ [][NextEdit]_vars

----------------------------------------------------------------------------
(* Helpers of the formulas about the settings invariants *)

\* the value is a provider slot
IsSlot(v) == v \in {JNum(1), JNum(2)}

\* the value is an integer that is not negative
NonNegativeInteger(v) == v.t = "number" /\ v.x = "" /\ v.n >= 0

\* the value is an integer that is not negative, or positive infinity
NonNegativeNumber(v) == NonNegativeInteger(v) \/ v = JInf

\* once the settings are loaded, both provider fields are slots and
\* maxTokens is a value that Limit recognises
SettingsContract(Limit(_)) ==
    loaded => /\ IsSlot(settings.textProvider)
              /\ IsSlot(settings.speechProvider)
              /\ Limit(settings.maxTokens)

\* C22 as stated: in every state reachable from a loaded settings object by
\* settings-tab edits, textProvider and speechProvider are exactly 1 or 2 and
\* maxTokens is an integer that is neither negative nor NaN.
C22_SettingsStayValid == SettingsContract(NonNegativeInteger)

\* C22: in every state reachable from a loaded settings object by
\* settings-tab edits, textProvider and speechProvider are exactly 1 or 2 and
\* maxTokens is a number that is neither negative nor NaN: a non-negative
\* integer, or Infinity when the digits parsed exceed the range of a double.
C22_SettingsStayValidOrInfinite == SettingsContract(NonNegativeNumber)

\* both kinds of edit have been made and saved on a blob that held neither
\* value: a provider picked in the dropdown, then an entry with trailing
\* text in the Max Tokens field
C22_Witness ==
    /\ loaded
    /\ edits >= 2
    /\ pending.build = 0
    /\ data.obj.speechProvider = JNum(2)
    /\ settings.maxTokens = JNum(12)
    /\ data.obj.maxTokens = JNum(12)

====
